---- MODULE Spec2Model ----
(***************************************************************************)
(* Model of src/index.tsx: the FoodAnalyzer component's state (query,      *)
(* loading, result, error), its event handlers, and the report parser      *)
(* that analyzeFood runs on the text the generative service returns.       *)
(*                                                                         *)
(* A string is a sequence of tokens.  A token is either one character      *)
(* (" ", "\n", "|", ":", "-", "*", ".", "+", a digit) or a word that       *)
(* begins with a letter and holds none of those characters, so every       *)
(* regular expression of the source reads a token sequence exactly as it   *)
(* reads the characters.                                                   *)
(***************************************************************************)
EXTENDS Integers, Sequences, FiniteSets, TLC

VARIABLES query, loading, result, error, timers, inflight, nextId, text, shown

vars == <<query, loading, result, error, timers, inflight, nextId, text, shown>>

----------------------------------------------------------------------------
\* Bounds of the model.

MaxSegments == 3
MaxRows == 2
MaxRequests == 3
MaxTimers == 2

----------------------------------------------------------------------------
\* String primitives of the JavaScript runtime, on token sequences.

Min(S) == CHOOSE x \in S : \A y \in S : x <= y

Max(S) == CHOOSE x \in S : \A y \in S : x >= y

\* \s of a regular expression, and the characters trim() removes.
IsSpace(c) == c \in {" ", "\n"}

\* \d of a regular expression.
IsDigit(c) == c \in {"0", "1", "2", "3", "4", "5", "6", "7", "8", "9"}

DigitVal(c) ==
  CASE c = "0" -> 0 [] c = "1" -> 1 [] c = "2" -> 2 [] c = "3" -> 3
    [] c = "4" -> 4 [] c = "5" -> 5 [] c = "6" -> 6 [] c = "7" -> 7
    [] c = "8" -> 8 [] c = "9" -> 9

\* String.prototype.toLowerCase, token by token.
Lower(c) ==
  CASE c = "PRODUCT" -> "product"
    [] c = "SUMMARY" -> "summary"
    [] c = "HEALTH_SCORE" -> "health_score"
    [] c = "FSSAI_NOTICE" -> "fssai_notice"
    [] c = "LIST_START" -> "list_start"
    [] c = "LIST_END" -> "list_end"
    [] c = "None" -> "none"
    [] c = "Danger" -> "danger"
    [] c = "Good" -> "good"
    [] c = "Unhealthy" -> "unhealthy"
    [] OTHER -> c

toLowerCase(s) == [i \in 1..Len(s) |-> Lower(s[i])]

\* The keywords that occur inside a word as a substring.
Subwords(c) ==
  CASE c = "unhealthy" -> {"unhealthy", "healthy"}
    [] OTHER -> {c}

\* String.prototype.includes for a keyword.
includes(s, kw) == \E i \in 1..Len(s) : kw \in Subwords(s[i])

\* String.prototype.trim.
trim(s) ==
  LET idx == {i \in 1..Len(s) : ~IsSpace(s[i])}
  IN IF idx = {} THEN <<>> ELSE SubSeq(s, Min(idx), Max(idx))

\* String.prototype.split on a one-character separator.
RECURSIVE split(_, _)
split(s, sep) ==
  LET idx == {i \in 1..Len(s) : s[i] = sep}
  IN IF idx = {} THEN <<s>>
     ELSE <<SubSeq(s, 1, Min(idx) - 1)>> \o split(SubSeq(s, Min(idx) + 1, Len(s)), sep)

\* The index where a greedy \s* that starts at index i stops.
SkipSpace(s, i) ==
  LET idx == {j \in i..Len(s) : ~IsSpace(s[j])}
  IN IF idx = {} THEN Len(s) + 1 ELSE Min(idx)

RECURSIVE DecVal(_)
DecVal(ds) ==
  IF ds = <<>> THEN 0 ELSE 10 * DecVal(SubSeq(ds, 1, Len(ds) - 1)) + DigitVal(ds[Len(ds)])

\* parseInt: leading white space, an optional sign, the longest run of digits.
parseInt(s) ==
  LET from == SkipSpace(s, 1)
      signed == from <= Len(s) /\ s[from] \in {"-", "+"}
      first == IF signed THEN from + 1 ELSE from
      stop == {j \in first..Len(s) : ~IsDigit(s[j])}
      last == IF stop = {} THEN Len(s) ELSE Min(stop) - 1
      n == DecVal(SubSeq(s, first, last))
  IN IF last < first THEN [isNaN |-> TRUE, n |-> 0]
     ELSE [isNaN |-> FALSE, n |-> IF signed /\ s[from] = "-" THEN 0 - n ELSE n]

----------------------------------------------------------------------------
\* The parser of analyzeFood (src/index.tsx, lines 102-151).

\* new RegExp(`${key}:\\s*(.*)`, 'i') matched against the whole text: the first
\* occurrence of key and ":" anywhere, white space of any kind, then the rest
\* of the line the white space ended on.
extractValue(t, key) ==
  LET starts == {i \in 1..(Len(t) - 1) : Lower(t[i]) = Lower(key) /\ t[i + 1] = ":"}
  IN IF starts = {} THEN [match |-> FALSE, value |-> <<>>]
     ELSE LET from == SkipSpace(t, Min(starts) + 2)
              nl == {j \in from..Len(t) : t[j] = "\n"}
              to == IF nl = {} THEN Len(t) ELSE Min(nl) - 1
          IN [match |-> TRUE, value |-> trim(SubSeq(t, from, to))]

\* The lazy capture of /KEY:\s*([\s\S]*?)(?=stops|$)/i: from the end of the
\* white space after the first KEY: to the first stop marker, or to the end.
CaptureUntil(t, key, stops) ==
  LET starts == {i \in 1..(Len(t) - 1) : Lower(t[i]) = Lower(key) /\ t[i + 1] = ":"}
  IN IF starts = {} THEN [match |-> FALSE, value |-> <<>>]
     ELSE LET from == SkipSpace(t, Min(starts) + 2)
              ends == {j \in from..Len(t) : Lower(t[j]) \in stops}
              to == IF ends = {} THEN Len(t) ELSE Min(ends) - 1
          IN [match |-> TRUE, value |-> SubSeq(t, from, to)]

summaryStops == {"health_score", "fssai_notice", "list_start"}

summaryMatch(t) == CaptureUntil(t, "SUMMARY", summaryStops)

fssaiStops == {"list_start"}

fssaiMatch(t) == CaptureUntil(t, "FSSAI_NOTICE", fssaiStops)

\* /LIST_START([\s\S]*?)LIST_END/i: the first LIST_START that a LIST_END
\* follows, up to the first LIST_END after it.
listMatch(t) ==
  LET ends(i) == {j \in (i + 1)..Len(t) : Lower(t[j]) = "list_end"}
      starts == {i \in 1..Len(t) : Lower(t[i]) = "list_start" /\ ends(i) # {}}
  IN IF starts = {} THEN [match |-> FALSE, value |-> <<>>]
     ELSE [match |-> TRUE, value |-> SubSeq(t, Min(starts) + 1, Min(ends(Min(starts))) - 1)]

rowsOf(t) ==
  LET m == listMatch(t) IN IF m.match THEN split(trim(m.value), "\n") ELSE <<>>

\* The character class of /^[-*•\d.]\s*/ ("bullet" stands for the character U+2022).
IsListMarker(c) == c \in {"-", "*", "bullet", "."} \/ IsDigit(c)

\* row.replace(/^[-*•\d.]\s*/, '').trim()
cleanRow(row) ==
  trim(IF Len(row) > 0 /\ IsListMarker(row[1])
       THEN SubSeq(row, SkipSpace(row, 2), Len(row))
       ELSE row)

\* cleanRow.split('|').map(p => p.trim())
partsOf(row) ==
  LET raw == split(cleanRow(row), "|") IN [i \in 1..Len(raw) |-> trim(raw[i])]

MinFields == 3

accepted(parts) == Len(parts) >= MinFields

\* classify with the healthy keywords tested first.
classify_m(statusRaw) ==
  IF includes(statusRaw, "healthy") \/ includes(statusRaw, "good") \/ includes(statusRaw, "safe")
  THEN "healthy"
  ELSE IF includes(statusRaw, "harmful") \/ includes(statusRaw, "bad")
          \/ includes(statusRaw, "danger") \/ includes(statusRaw, "concern")
       THEN "harmful"
       ELSE "neutral"

\* Lines 135-138: the harmful keywords are tested first.
classify(statusRaw) ==
  IF includes(statusRaw, "harmful") \/ includes(statusRaw, "bad")
     \/ includes(statusRaw, "danger") \/ includes(statusRaw, "concern")
  THEN "harmful"
  ELSE IF includes(statusRaw, "healthy") \/ includes(statusRaw, "good")
          \/ includes(statusRaw, "safe")
       THEN "healthy"
       ELSE "neutral"

DefaultQuantity == <<"N/A">>

DefaultDescription == <<"Major component found in product label.">>

DefaultSummary == <<"Analysis complete.">>

DefaultScore == 50

\* a || b on strings: b when a is the empty string.
OrElse(a, b) == IF a = <<>> THEN b ELSE a

\* ingredientOf without the "N/A" default of the quantity.
ingredientOf_m(parts) ==
  [name |-> parts[1],
   quantity |-> parts[2],
   status |-> classify(toLowerCase(parts[3])),
   description |-> IF Len(parts) >= 4 THEN OrElse(parts[4], DefaultDescription)
                   ELSE DefaultDescription]

\* Lines 140-145: the object pushed for an accepted row.
ingredientOf(parts) ==
  [name |-> parts[1],
   quantity |-> OrElse(parts[2], DefaultQuantity),
   status |-> classify(toLowerCase(parts[3])),
   description |-> IF Len(parts) >= 4 THEN OrElse(parts[4], DefaultDescription)
                   ELSE DefaultDescription]

RECURSIVE ingredientsOf(_)
ingredientsOf(rows) ==
  IF rows = <<>> THEN <<>>
  ELSE LET parts == partsOf(Head(rows))
       IN (IF accepted(parts) THEN <<ingredientOf(parts)>> ELSE <<>>)
          \o ingredientsOf(Tail(rows))

productNameOf(t, q) ==
  LET m == extractValue(t, "PRODUCT") IN IF m.match THEN OrElse(m.value, q) ELSE q

healthScoreOf(t) ==
  LET m == extractValue(t, "HEALTH_SCORE")
      parsedScore == parseInt(IF m.match THEN OrElse(m.value, <<"5", "0">>) ELSE <<"5", "0">>)
  IN IF parsedScore.isNaN THEN DefaultScore ELSE parsedScore.n

summaryOf(t) ==
  LET m == summaryMatch(t) IN IF m.match THEN trim(m.value) ELSE DefaultSummary

\* fssaiNoticeOf without the toLowerCase before the test for "none".
fssaiNoticeOf_m(t) ==
  LET m == fssaiMatch(t)
  IN IF m.match /\ ~includes(m.value, "none") THEN trim(m.value) ELSE <<>>

\* Lines 122-125.
fssaiNoticeOf(t) ==
  LET m == fssaiMatch(t)
  IN IF m.match /\ ~includes(toLowerCase(m.value), "none") THEN trim(m.value) ELSE <<>>

\* groundingChunks.filter(chunk => chunk.web).map(...)
RECURSIVE sourcesOf(_)
sourcesOf(chunks) ==
  IF chunks = <<>> THEN <<>>
  ELSE (IF Head(chunks).web THEN <<[title |-> Head(chunks).title, uri |-> Head(chunks).uri]>>
        ELSE <<>>) \o sourcesOf(Tail(chunks))

NoDataMessage == <<"No data received from the analyzer. Please try again.">>

ExtractionMessage == <<"Ingredient list could not be parsed. Please verify the product name.">>

RateLimitMessage == <<"Rate limit exceeded. Gemini Flash Lite has higher limits, but the API may still be busy. Please wait a moment and try again.">>

GenericMessage == <<"Something went wrong while scanning the product.">>

\* noIngredients when the test of line 149 is left out.
noIngredients_m(ingredients) == FALSE

\* Line 149.
noIngredients(ingredients) == Len(ingredients) = 0

\* The body of the try block after the await: the value given to setResult,
\* or the message of the Error thrown.
parseResponse(resp, q) ==
  IF resp.text = <<>> THEN [ok |-> FALSE, message |-> NoDataMessage]
  ELSE LET ingredients == ingredientsOf(rowsOf(resp.text))
       IN IF noIngredients(ingredients)
          THEN [ok |-> FALSE, message |-> ExtractionMessage]
          ELSE [ok |-> TRUE,
                value |-> [productName |-> productNameOf(resp.text, q),
                           summary |-> summaryOf(resp.text),
                           ingredients |-> ingredients,
                           sources |-> sourcesOf(resp.chunks),
                           fssaiNotice |-> fssaiNoticeOf(resp.text),
                           healthScore |-> healthScoreOf(resp.text)]]

\* The catch block: the message given to setError.
errorMessage(message) ==
  IF includes(message, "429") \/ includes(message, "RESOURCE_EXHAUSTED")
  THEN RateLimitMessage
  ELSE OrElse(message, GenericMessage)

----------------------------------------------------------------------------
\* The inputs: what the user types and clicks, and what the service answers.

Queries == {<<>>, <<" ">>, <<"Kurkure">>}

Suggestions ==
  {<<"Maggi Noodles">>, <<"Haldiram Bhujia">>, <<"Britannia Marie">>, <<"Tropicana Orange">>}

Chunks ==
  <<[web |-> TRUE, title |-> "FSSAI", uri |-> "https://fssai.gov.in"],
    [web |-> FALSE, title |-> "", uri |-> ""]>>

Rejections == {<<"429", " ", "Too Many Requests">>, <<"Network error">>, <<>>}

RECURSIVE Concat(_)
Concat(ss) == IF ss = <<>> THEN <<>> ELSE Head(ss) \o Concat(Tail(ss))

RECURSIVE Join(_, _)
Join(ss, sep) ==
  IF ss = <<>> THEN <<>>
  ELSE IF Len(ss) = 1 THEN Head(ss)
  ELSE Head(ss) \o <<sep>> \o Join(Tail(ss), sep)

SeqsUpTo(S, n) == UNION {[1..k -> S] : k \in 0..n}

\* Sections of a report, in the shape the prompt asks for and in the shapes a
\* generator drifts to.
Segments ==
  {<<"PRODUCT", ":", " ", "Maggi", "\n">>,
   <<"PRODUCT", ":", "\n">>,
   <<"Name", " ", "product", ":", " ", "Lays", "\n">>,
   <<"SUMMARY", ":", " ", "High", "\n", "sugar", "\n">>,
   <<"HEALTH_SCORE", ":", " ", "3", "5", "\n">>,
   <<"HEALTH_SCORE", ":", " ", "1", "5", "0", "\n">>,
   <<"HEALTH_SCORE", ":", " ", "-", "5", "\n">>,
   <<"HEALTH_SCORE", ":", " ", "abc", "\n">>,
   <<"FSSAI_NOTICE", ":", " ", "None", "\n">>,
   <<"FSSAI_NOTICE", ":", " ", "none", " ", "detected", "\n">>,
   <<"FSSAI_NOTICE", ":", " ", "Contains", " ", "dye", "\n">>,
   <<"LIST_START", "\n", "Sugar", " ", "|", " ", "3", "5", "g", " ", "|", " ", "harmful",
     " ", "|", " ", "Excess", "\n", "LIST_END", "\n">>,
   <<"list_start", "\n", "LIST_END", "\n">>,
   <<"LIST_START", "\n", "Oil", "|", "5", "g", "\n">>}

\* Rows of the ingredient table.
Rows ==
  {<<"Sugar", " ", "|", " ", "3", "5", "g", " ", "|", " ", "harmful", " ", "|", " ", "Excess">>,
   <<"Rice", "|", "4", "0", "|", "healthy">>,
   <<"Salt", "|", " ", "|", "Danger", " ", "safe">>,
   <<"Oil", "|", "5", "g">>,
   <<"|", "Water", "|", "1", "|", "neutral", "|">>,
   <<"Gum", "|", "1", "|", "Good", "|">>,
   <<"-", " ", "Soy", "|", "2", "|", "concern", "|", "x">>,
   <<"1", "0", ".", " ", "Sugar", "|", "5", "g", "|", "harmful">>,
   <<"7", "Up", "|", "1", "|", "bad">>,
   <<"Dye", "|", "1", "|", "Unhealthy">>,
   <<" ">>,
   <<"Milk", "|", "1", "|", "ok", "|", "fine", "|", "extra">>}

Headers ==
  {<<>>,
   <<"PRODUCT", ":", " ", "Maggi", "\n", "SUMMARY", ":", " ", "High", "\n",
     "HEALTH_SCORE", ":", " ", "3", "5", "\n", "FSSAI_NOTICE", ":", " ", "None", "\n">>}

TableOf(rows) == <<"LIST_START", "\n">> \o Join(rows, "\n") \o <<"\n", "LIST_END">>

Texts ==
  {Concat(ss) : ss \in SeqsUpTo(Segments, MaxSegments)}
  \cup {h \o TableOf(rows) : h \in Headers, rows \in SeqsUpTo(Rows, MaxRows)}

\* What the service answers in the specification of the whole component.
Responses ==
  {[text |-> <<>>, chunks |-> <<>>],
   [text |-> <<"PRODUCT", ":", " ", "Maggi", "\n">>, chunks |-> Chunks],
   [text |-> <<"LIST_START", "\n", "Sugar", "|", "5", "g", "|", "harmful", "\n", "LIST_END">>,
    chunks |-> Chunks]}

----------------------------------------------------------------------------
\* The component: state after construction, and one action per handler.

Init ==
  /\ query = <<>>
  /\ loading = FALSE
  /\ result = <<>>
  /\ error = <<>>
  /\ timers = <<>>
  /\ inflight = {}
  /\ nextId = 1
  /\ text = <<>>
  /\ shown = 0

\* analyzeFood up to its await, run by a closure that captured query q.
analyzeFood(q) ==
  IF trim(q) = <<>>
  THEN UNCHANGED <<loading, error, result, inflight, nextId>>
  ELSE /\ loading' = TRUE
       /\ error' = <<>>
       /\ result' = <<>>
       /\ inflight' = inflight \cup {[id |-> nextId, q |-> q]}
       /\ nextId' = nextId + 1

\* onChange of the input.
TypeQuery(q) ==
  /\ query' = q
  /\ UNCHANGED <<loading, result, error, timers, inflight, nextId, text, shown>>

\* onSubmit of the form; the submit button is disabled while loading.
Submit ==
  /\ ~loading
  /\ nextId <= MaxRequests
  /\ analyzeFood(query)
  /\ UNCHANGED <<query, timers, text, shown>>

\* onClick of a suggestion: setQuery(item), and a timer that will run the
\* analyzeFood of this render, whose query is the one before the click.
SuggestionClick(item) ==
  /\ ~loading /\ result = <<>> /\ error = <<>>
  /\ Len(timers) < MaxTimers
  /\ query' = item
  /\ timers' = Append(timers, query)
  /\ UNCHANGED <<loading, result, error, inflight, nextId, text, shown>>

\* The 100 ms timer of a suggestion click fires.
TimerFire ==
  /\ timers # <<>>
  /\ nextId <= MaxRequests
  /\ timers' = Tail(timers)
  /\ analyzeFood(Head(timers))
  /\ UNCHANGED <<query, text, shown>>

\* onClick of Try Again, shown with the error.
TryAgain ==
  /\ error # <<>>
  /\ nextId <= MaxRequests
  /\ analyzeFood(query)
  /\ UNCHANGED <<query, timers, text, shown>>

\* onClick of New Analysis, shown with the result.
NewAnalysis ==
  /\ result # <<>>
  /\ query' = <<>>
  /\ result' = <<>>
  /\ UNCHANGED <<loading, error, timers, inflight, nextId, text, shown>>

\* generateContent resolves for request r: the rest of the try block, the
\* catch block when it throws, and the finally block.
Respond(r, resp) ==
  /\ r \in inflight
  /\ inflight' = inflight \ {r}
  /\ text' = resp.text
  /\ LET out == parseResponse(resp, r.q)
     IN IF out.ok
        THEN result' = <<out.value>> /\ error' = error
        ELSE error' = <<errorMessage(out.message)>> /\ result' = result
  /\ loading' = FALSE
  /\ shown' = r.id
  /\ UNCHANGED <<query, timers, nextId>>

\* generateContent rejects for request r: the catch and finally blocks.
Reject(r, message) ==
  /\ r \in inflight
  /\ inflight' = inflight \ {r}
  /\ error' = <<errorMessage(message)>>
  /\ loading' = FALSE
  /\ shown' = r.id
  /\ UNCHANGED <<query, result, timers, nextId, text>>

Next ==
  \/ \E q \in Queries : TypeQuery(q)
  \/ Submit
  \/ \E item \in Suggestions : SuggestionClick(item)
  \/ TimerFire
  \/ TryAgain
  \/ NewAnalysis
  \/ \E r \in inflight, resp \in Responses : Respond(r, resp)
  \/ \E r \in inflight, message \in Rejections : Reject(r, message)

Spec == Init /\ [][Next]_vars

\* One request in flight, answered with any report text.
InitParse ==
  /\ query = <<"Kurkure">>
  /\ loading = TRUE
  /\ result = <<>>
  /\ error = <<>>
  /\ timers = <<>>
  /\ inflight = {[id |-> 1, q |-> <<"Kurkure">>]}
  /\ nextId = 2
  /\ text = <<>>
  /\ shown = 0

NextParse == \E r \in inflight, t \in Texts : Respond(r, [text |-> t, chunks |-> Chunks])

SpecParse == InitParse /\ [][NextParse]_vars

----------------------------------------------------------------------------
\* What the claims speak of, stated on the positions of the report text.

Published == result # <<>>

\* The k-th smallest member of a set of positions, k counted from 1.
Nth(S, k) == CHOOSE p \in S : Cardinality({x \in S : x < p}) = k - 1

\* The text strictly between the first LIST_START and the LIST_END after it,
\* trimmed; the empty text when there is no such pair.
TableBody(t) ==
  LET opens == {i \in 1..Len(t) : Lower(t[i]) = "list_start"}
      closes == {j \in 1..Len(t) : Lower(t[j]) = "list_end"}
  IN IF opens = {} \/ {j \in closes : j > Min(opens)} = {} THEN <<>>
     ELSE trim(SubSeq(t, Min(opens) + 1, Min({j \in closes : j > Min(opens)}) - 1))

\* Where the lines of a text begin, and where the line that begins at p ends.
LineStarts(b) == {p \in 1..Len(b) : p = 1 \/ b[p - 1] = "\n"}

LineEnd(b, p) ==
  LET nl == {j \in p..Len(b) : b[j] = "\n"} IN IF nl = {} THEN Len(b) ELSE Min(nl) - 1

Pipes(b, p) == {j \in p..LineEnd(b, p) : b[j] = "|"}

\* The lines with at least three pipe-separated fields.
RowStarts(b) == {p \in LineStarts(b) : Cardinality(Pipes(b, p)) >= 2}

HasField(b, p, k) == k <= Cardinality(Pipes(b, p))

\* Field k (counted from 0) of the line that begins at p, trimmed.
Field(b, p, k) ==
  LET first == IF k = 0 THEN p ELSE Nth(Pipes(b, p), k) + 1
      last == IF k < Cardinality(Pipes(b, p)) THEN Nth(Pipes(b, p), k + 1) - 1
              ELSE LineEnd(b, p)
  IN trim(SubSeq(b, first, last))

HarmfulWords == {"harmful", "bad", "danger", "concern"}

HealthyWords == {"healthy", "good", "safe"}

Mentions(field, words) ==
  \E i \in 1..Len(field), w \in words : w \in Subwords(Lower(field[i]))

\* Where a line begins with KEY and a colon.
KeyLines(t, key) ==
  {i \in 1..(Len(t) - 1) : Lower(t[i]) = key /\ t[i + 1] = ":" /\ (i = 1 \/ t[i - 1] = "\n")}

\* The rest of the line after the KEY: of the first such line, trimmed.
LineValue(t, key) ==
  LET i == Min(KeyLines(t, key)) IN trim(SubSeq(t, i + 2, LineEnd(t, i + 2)))

\* Where KEY and a colon occur at all.
KeyAt(t, key) == {i \in 1..(Len(t) - 1) : Lower(t[i]) = key /\ t[i + 1] = ":"}

\* The text after the first KEY: up to the next marker among stops, or the end.
SpanAfter(t, key, stops) ==
  LET from == Min(KeyAt(t, key)) + 2
      next == {j \in from..Len(t) : Lower(t[j]) \in stops}
  IN SubSeq(t, from, IF next = {} THEN Len(t) ELSE Min(next) - 1)

SectionMarkers == {"health_score", "fssai_notice", "list_start"}

----------------------------------------------------------------------------
\* The claims.

\* C1: a report text with no accepted ingredient row (no LIST_START..LIST_END
\* span, an empty table, only rows of fewer than 3 fields) ends in the
\* extraction error with no result published, whatever else it holds; and a
\* published result has at least one ingredient.
C1_AcceptanceRule ==
  (shown # 0 /\ text # <<>>) =>
    /\ RowStarts(TableBody(text)) = {} => (result = <<>> /\ error = <<ExtractionMessage>>)
    /\ Published => Len(result[1].ingredients) > 0

\* C1 witness: a text whose product name is there and whose table holds only
\* a two-field row was rejected with the extraction error.
C1_Witness ==
  /\ shown # 0
  /\ KeyLines(text, "product") # {}
  /\ \E p \in LineStarts(TableBody(text)) : Cardinality(Pipes(TableBody(text), p)) = 1
  /\ RowStarts(TableBody(text)) = {}
  /\ result = <<>>
  /\ error = <<ExtractionMessage>>

\* C2: the status of every ingredient is harmful when the lower-cased third
\* field of its row holds harmful, bad, danger or concern; otherwise healthy
\* when it holds healthy, good or safe; otherwise neutral.
C2_StatusClassification ==
  Published =>
    LET b == TableBody(text)
    IN \A i \in 1..Len(result[1].ingredients) :
         i <= Cardinality(RowStarts(b)) =>
           LET f == Field(b, Nth(RowStarts(b), i), 2)
           IN result[1].ingredients[i].status =
                IF Mentions(f, HarmfulWords) THEN "harmful"
                ELSE IF Mentions(f, HealthyWords) THEN "healthy"
                ELSE "neutral"

\* C2 witness: a published ingredient whose status text holds a harmful and a
\* healthy keyword, classified harmful.
C2_Witness ==
  /\ Published
  /\ LET b == TableBody(text)
     IN \E i \in 1..Len(result[1].ingredients) :
          /\ i <= Cardinality(RowStarts(b))
          /\ Mentions(Field(b, Nth(RowStarts(b), i), 2), HarmfulWords)
          /\ Mentions(Field(b, Nth(RowStarts(b), i), 2), HealthyWords)
          /\ result[1].ingredients[i].status = "harmful"

\* The line of the table that the i-th ingredient comes from.
RowAt(i) == Nth(RowStarts(TableBody(text)), i)

\* The ingredients are the lines of at least 3 fields, in order; name is field
\* 0 (after the list-marker strip), quantity is field 1 or "N/A" when empty.
NamesAndQuantities ==
  Published =>
    LET b == TableBody(text)
        ings == result[1].ingredients
    IN /\ Len(ings) = Cardinality(RowStarts(b))
       /\ \A i \in 1..Len(ings) :
            /\ ings[i].name = cleanRow(Field(b, RowAt(i), 0))
            /\ ings[i].quantity =
                 (IF Field(b, RowAt(i), 1) = <<>> THEN DefaultQuantity
                  ELSE Field(b, RowAt(i), 1))

\* C3 as claimed: the ingredients are exactly the table lines of at least 3
\* fields, in order; name is field 0, quantity is field 1 or "N/A" when it is
\* empty, description is field 3 or the placeholder when field 3 is absent.
C3_RowExtraction_AsClaimed ==
  /\ NamesAndQuantities
  /\ Published =>
       \A i \in 1..Len(result[1].ingredients) :
         result[1].ingredients[i].description =
           IF HasField(TableBody(text), RowAt(i), 3)
           THEN Field(TableBody(text), RowAt(i), 3)
           ELSE DefaultDescription

\* C3 as amended: the same, with the placeholder also when field 3 is there
\* and empty.
C3_RowExtraction ==
  /\ NamesAndQuantities
  /\ Published =>
       \A i \in 1..Len(result[1].ingredients) :
         result[1].ingredients[i].description =
           IF HasField(TableBody(text), RowAt(i), 3) /\ Field(TableBody(text), RowAt(i), 3) # <<>>
           THEN Field(TableBody(text), RowAt(i), 3)
           ELSE DefaultDescription

\* C3 witness: of two table lines one had two fields and was dropped, the
\* other had exactly three, an empty quantity, and got "N/A" and the placeholder.
C3_Witness ==
  /\ Published
  /\ LET b == TableBody(text)
     IN /\ Cardinality(LineStarts(b)) = 2
        /\ \E p \in LineStarts(b) : Cardinality(Pipes(b, p)) = 1
        /\ \E p \in LineStarts(b) : Cardinality(Pipes(b, p)) = 2 /\ Field(b, p, 1) = <<>>
  /\ Len(result[1].ingredients) = 1
  /\ result[1].ingredients[1].quantity = DefaultQuantity
  /\ result[1].ingredients[1].description = DefaultDescription

\* C4: the healthScore of every published result is an integer in 0..100.
C4_ScoreInRange == Published => result[1].healthScore \in 0..100

\* C5: every ingredient of every published result has a non-empty name.
C5_NameNonEmpty ==
  Published => \A i \in 1..Len(result[1].ingredients) : result[1].ingredients[i].name # <<>>

\* C6: the result carries no notice when the text has no FSSAI_NOTICE: marker
\* or when the captured notice text holds "none" in any case; otherwise its
\* notice is the captured text, trimmed (captured: up to LIST_START or the end).
C6_NoticeLaw ==
  Published =>
    result[1].fssaiNotice =
      IF KeyAt(text, "fssai_notice") = {} THEN <<>>
      ELSE IF Mentions(SpanAfter(text, "fssai_notice", {"list_start"}), {"none"}) THEN <<>>
      ELSE trim(SpanAfter(text, "fssai_notice", {"list_start"}))

\* C6 witness: a published result whose text said "FSSAI_NOTICE: None" and
\* which carries no notice.
C6_Witness ==
  /\ Published
  /\ KeyAt(text, "fssai_notice") # {}
  /\ \E i \in 1..Len(text) : text[i] = "None"
  /\ result[1].fssaiNotice = <<>>

\* C7: the summary and the notice are the text from their marker up to the
\* next of HEALTH_SCORE, FSSAI_NOTICE, LIST_START or the end of the text.
C7_SpanBoundary ==
  Published =>
    /\ KeyAt(text, "summary") # {} =>
         result[1].summary = trim(SpanAfter(text, "summary", SectionMarkers))
    /\ result[1].fssaiNotice # <<>> =>
         result[1].fssaiNotice = trim(SpanAfter(text, "fssai_notice", SectionMarkers))

\* C8: productName is the rest of the first line that starts with PRODUCT:,
\* never text of a following line nor of a PRODUCT: inside a line, and the
\* query when there is no such line; healthScore is 50 when no line starts
\* with HEALTH_SCORE: or when the value of that line is not a number.
C8_ScalarLineAnchored ==
  Published =>
    /\ KeyLines(text, "product") = {} => result[1].productName = query
    /\ KeyLines(text, "product") # {} =>
         result[1].productName \in {LineValue(text, "product"), query}
    /\ KeyLines(text, "health_score") = {} => result[1].healthScore = DefaultScore
    /\ (/\ KeyLines(text, "health_score") # {}
        /\ LineValue(text, "health_score") # <<>>
        /\ ~IsDigit(LineValue(text, "health_score")[1])
        /\ LineValue(text, "health_score")[1] \notin {"-", "+"})
       => result[1].healthScore = DefaultScore

\* C9: the result or error on display is the outcome of the request issued last.
C9_LatestOutcomeShown == (result # <<>> \/ error # <<>>) => shown = nextId - 1

\* C10: result and error are never both set, and loading is true while a
\* request is in flight.
C10_SingleOutcome ==
  /\ ~(result # <<>> /\ error # <<>>)
  /\ inflight # {} => loading

\* The text of the line at p before its first pipe, as written.
RawName(b, p) == SubSeq(b, p, Min(Pipes(b, p)) - 1)

\* The length of the list marker a text begins with, as claim C11 defines it: a
\* bullet or a dash, or a whole run of digits followed by a dot; 0 when none.
MarkerLength(s) ==
  LET nonDigit == {j \in 1..Len(s) : ~IsDigit(s[j])}
      digits == IF nonDigit = {} THEN Len(s) ELSE Min(nonDigit) - 1
  IN IF s = <<>> THEN 0
     ELSE IF s[1] \in {"-", "*", "bullet"} THEN 1
     ELSE IF digits >= 1 /\ digits < Len(s) /\ s[digits + 1] = "." THEN digits + 1
     ELSE 0

\* C11: the name of an ingredient is field 0 of its line with only a leading
\* list marker removed (a bullet, a dash, or a complete ordinal such as "1." or
\* "10."), so "10. Sugar" gives "Sugar" and a name that begins with a digit or
\* a dot without being an ordinal keeps its first character.
C11_MarkerStripping ==
  Published =>
    LET b == TableBody(text)
    IN \A i \in 1..Len(result[1].ingredients) :
         (i <= Cardinality(RowStarts(b)) /\ ~IsSpace(b[RowAt(i)])) =>
           result[1].ingredients[i].name =
             trim(SubSeq(RawName(b, RowAt(i)), MarkerLength(RawName(b, RowAt(i))) + 1,
                         Len(RawName(b, RowAt(i)))))

====
